---- MODULE Spec2Model ----
(***************************************************************************)
(* Model of the synk client's push path (src/client/synk.py): the local    *)
(* tree scan, the diff against index.json, the pruning of the four         *)
(* operation lists, and their execution on the remote through FTPClient.   *)
(*                                                                         *)
(* A relative POSIX path is the sequence of its segments, so               *)
(* Path(x).is_relative_to(y) is "y is a prefix of x" and Path.parent drops *)
(* the last segment.  A tree maps every path of its domain to "absent",    *)
(* "dir" or the content hash of the file found there; a local directory    *)
(* can also be one that cannot be listed.  index.json and config.ini are   *)
(* kept outside the synchronised tree.                                     *)
(*                                                                         *)
(* Six specifications share the actions:                                   *)
(*   Spec      runs, failures, runs ended inside a step and local edits    *)
(*             from an empty start;                                        *)
(*   SpecIO    the same, with local reads and listings that fail;          *)
(*   SpecDiff  the plan of push() on every pair of snapshot and tree;      *)
(*   SpecSync  a whole run on every pair of listable trees;                *)
(*   SpecExec  one FTPClient call on every remote tree;                    *)
(*   SpecFaulty  delete_dir on small remote trees, any command refused     *)
(*             and any listing the server may send.                        *)
(***************************************************************************)
EXTENDS Naturals, Sequences, FiniteSets, TLC

VARIABLES
    local,            \* the local tree under the sync root
    index,            \* index.json: [exists, files, dirs]
    remote,           \* the tree held by the FTP server
    pc,               \* position of the push run; "idle" when no run has
                      \* started since the tree was last edited
    files_to_push,    \* the four lists of push(), as computed by the run
    files_to_delete,
    dirs_to_create,
    dirs_to_delete,
    todo,             \* what each of the four for-loops has not completed yet
    stack,            \* recursive_delete call stack: frames [path, listed,
                      \* items]
    cur,              \* make_dir / upload in progress: [path, i] or NoCur
    edits,            \* number of local edits made so far
    index0,           \* history: index.json as it was when the run started
    prevOutcome,      \* history: how the previous run ended if it got as far
                      \* as its plan, kept until the new run has its plan and
                      \* connects
    pending,          \* history: what the last aborted run left undone, kept
                      \* until the next run has its plan and connects
    issued,           \* history: the kinds of remote command this run has
                      \* issued, and the kinds of refusal it has met
    remote0,          \* history: the remote tree as the run found it
    attempted,        \* history: the paths make_dir / upload has sent MKD for,
                      \* for the entry under way
    lastCmd           \* history: the last remote command issued by this run

vars == << local, index, remote, pc, files_to_push, files_to_delete,
           dirs_to_create, dirs_to_delete, todo, stack, cur, edits,
           index0, prevOutcome, pending, issued, remote0, attempted, lastCmd >>

\* ------------------------------------------------------------------ bounds
MaxEdits == 3

\* Frames of recursive_delete the interpreter allows before RecursionError
\* (sys.getrecursionlimit() is 1000).
RecursionLimit == 4

\* Entries of the remote tree when any command can be refused.
MaxEntries == 3

\* ------------------------------------------------------------------- paths
Universe ==
    { <<"a.txt">>, <<"b">>, <<"b", "c.txt">>,
      <<"d">>, <<"d", "e.txt">>, <<"d", "f.txt">> }

Hashes == {"H1", "H2"}
Kinds == {"absent", "dir"} \cup Hashes

\* A local directory can be one whose listing raises OSError (no read
\* permission for the process); what it holds is still there.
Unlistable == "unlistable dir"

Root == << >>
Parent(p) == SubSeq(p, 1, Len(p) - 1)

\* Path(f).is_relative_to(directory)
is_relative_to(f, directory) ==
    /\ Len(directory) <= Len(f)
    /\ SubSeq(f, 1, Len(directory)) = directory

EmptyTree == [p \in Universe |-> "absent"]
EmptyMap == [p \in {} |-> "H1"]

Children(t, dir) == {q \in DOMAIN t : Parent(q) = dir /\ t[q] # "absent"}

\* A tree a file system can hold: whatever exists sits in a directory.
ValidTree(t) ==
    \A p \in DOMAIN t :
        (t[p] # "absent" /\ Len(p) > 1) => t[Parent(p)] \in {"dir", Unlistable}

\* ------------------------------------------------------------ tree scanner
\* Path(path).walk(): the directories visited, top-down from `dir`.  With
\* on_error=None a directory whose listing raises is passed over silently:
\* it is not visited, and neither is anything under it.
RECURSIVE walk(_, _)
walk(t, dir) ==
    {dir} \cup UNION { walk(t, c) : c \in {q \in Children(t, dir) : t[q] = "dir"} }

generate_file_hashes(t) ==
    LET walked == walk(t, Root)
        files == {q \in DOMAIN t : Parent(q) \in walked /\ t[q] \in Hashes}
    IN  [q \in files |-> t[q]]

get_all_dirs_top_level(t) == {q \in DOMAIN t : Len(q) = 1 /\ t[q] = "dir"}

get_all_dirs(t) == walk(t, Root) \ {Root}

\* ---------------------------------------------------------- snapshot store
\* index.json: whether the file is there, whether json.load and the reads of
\* data["files"] and data["dirs"] succeed on it, and what they give.
NoIndex == [exists |-> FALSE, loads |-> TRUE, files |-> EmptyMap, dirs |-> {}]

\* An index.json that is not JSON, or is JSON without "files" or "dirs".
DamagedIndex == [exists |-> TRUE, loads |-> FALSE, files |-> EmptyMap, dirs |-> {}]

\* with open("index.json", "r"): json.load, data["files"], data["dirs"]
index_loads_lenient(idx) == TRUE

index_loads(idx) == idx.loads

\* ------------------------------------------------------------- diff engine
raw_files_to_push_new_only(current_file_hashes, idx) ==
    IF ~idx.exists
    THEN DOMAIN current_file_hashes
    ELSE {f \in DOMAIN current_file_hashes : f \notin DOMAIN idx.files}

raw_files_to_push(current_file_hashes, idx) ==
    IF ~idx.exists
    THEN DOMAIN current_file_hashes
    ELSE {f \in DOMAIN current_file_hashes :
            \/ (f \in DOMAIN idx.files /\ current_file_hashes[f] # idx.files[f])
            \/ f \notin DOMAIN idx.files}

raw_files_to_delete_all(current_file_hashes, idx) ==
    IF ~idx.exists THEN {} ELSE DOMAIN idx.files

raw_files_to_delete(current_file_hashes, idx) ==
    IF ~idx.exists
    THEN {}
    ELSE {f \in DOMAIN idx.files : f \notin DOMAIN current_file_hashes}

raw_dirs_to_create_all(current_dirs, idx) == current_dirs

raw_dirs_to_create(current_dirs, idx) ==
    IF ~idx.exists
    THEN current_dirs
    ELSE {d \in current_dirs : d \notin idx.dirs}

raw_dirs_to_delete(current_dirs, idx) ==
    IF ~idx.exists
    THEN {}
    ELSE {d \in idx.dirs : d \notin current_dirs}

\* keep only deepest dirs, and drop a dir that holds a file to push
filtered_dirs_ignore_uploads(to_create, to_push) ==
    {d \in to_create :
        ~ \E other \in to_create : other # d /\ is_relative_to(other, d)}

filtered_dirs_skip_ancestors(to_create, to_push) ==
    {d \in to_create : ~ \E f \in to_push : is_relative_to(f, d)}

filtered_dirs(to_create, to_push) ==
    {d \in to_create :
        /\ ~ \E f \in to_push : is_relative_to(f, d)
        /\ ~ \E other \in to_create : other # d /\ is_relative_to(other, d)}

filtered_delete_dirs_deepest(to_delete) ==
    {d \in to_delete :
        ~ \E other \in to_delete : other # d /\ is_relative_to(other, d)}

\* keep only shallowest dirs
filtered_delete_dirs(to_delete) ==
    {d \in to_delete :
        ~ \E other \in to_delete : other # d /\ is_relative_to(d, other)}

\* drop the files that are inside a dir to delete
filtered_files_to_delete_keep_all(to_delete, pruned_dirs) == to_delete

filtered_files_to_delete(to_delete, pruned_dirs) ==
    {f \in to_delete : ~ \E dir_ \in pruned_dirs : is_relative_to(f, dir_)}

\* What json.dump writes to index.json.  In the first-run branch
\* dirs_to_create is the same list object as current_dirs, and the pruning
\* rewrites that list in place; the dump comes before the pruning.
index_written_after_pruning(t, idx) ==
    [exists |-> TRUE,
     loads  |-> TRUE,
     files  |-> generate_file_hashes(t),
     dirs   |-> IF ~idx.exists
                THEN filtered_dirs(get_all_dirs(t),
                                   raw_files_to_push(generate_file_hashes(t), idx))
                ELSE get_all_dirs(t)]

index_written(t, idx) ==
    [exists |-> TRUE,
     loads  |-> TRUE,
     files  |-> generate_file_hashes(t),
     dirs   |-> get_all_dirs(t)]

\* Lines 184-258 of push(): the four lists for tree t against snapshot idx,
\* diffed and then pruned.
pruned_lists(to_push, to_delete, to_create, gone_dirs) ==
    [dirs_to_delete  |-> filtered_delete_dirs(gone_dirs),
     files_to_delete |-> filtered_files_to_delete(to_delete,
                                                  filtered_delete_dirs(gone_dirs)),
     dirs_to_create  |-> filtered_dirs(to_create, to_push),
     files_to_push   |-> to_push]

operation_lists(t, idx) ==
    LET current_file_hashes == generate_file_hashes(t)
        current_dirs == get_all_dirs(t)
    IN  pruned_lists(raw_files_to_push(current_file_hashes, idx),
                     raw_files_to_delete(current_file_hashes, idx),
                     raw_dirs_to_create(current_dirs, idx),
                     raw_dirs_to_delete(current_dirs, idx))

\* ------------------------------------------------------------ FTP commands
\* What the server answers to the commands FTPClient sends.  A refused
\* command is a 5xx reply, which ftplib raises as error_perm.
\* What the server holds at p; a path the tree does not reach is not there.
kind_at(r, p) == IF p \in DOMAIN r THEN r[p] ELSE "absent"

\* storbinary sends the file block by block; a transfer that is cut leaves
\* on the server a file holding the blocks that arrived: a content that is
\* the content of no local file.
Partial == "partial content"
RemoteFiles == Hashes \cup {Partial}

RmdOk(r, p) == kind_at(r, p) = "dir" /\ Children(r, p) = {}
DeleOk(r, p) == kind_at(r, p) \in RemoteFiles
MkdOk(r, p) == r[p] = "absent" /\ (Len(p) > 1 => r[Parent(p)] = "dir")
StorOk(r, p) == r[p] # "dir" /\ (Len(p) > 1 => r[Parent(p)] = "dir")

\* Why the server refuses: the text of the 550 reply.  ftplib raises the same
\* error_perm whatever the text is.
RmdRefusal(r, p) ==
    IF kind_at(r, p) = "absent" THEN "RMD refused: not found"
    ELSE IF kind_at(r, p) # "dir" THEN "RMD refused: not a directory"
    ELSE "RMD refused: not empty"
DeleRefusal(r, p) ==
    IF kind_at(r, p) = "absent" THEN "DELE refused: not found"
    ELSE "DELE refused: is a directory"
Raised == "error_perm raised"

\* An item of a listing is the string the server sent, kept as its parts
\* between slashes: "e.txt" is <<"e.txt">>, "d/" is <<"d", "">>, "/d/e.txt" is
\* <<"", "d", "e.txt">>, "." is <<".">> and the empty string is <<"">>.

\* ftps.nlst(remote_path): the names found in remote_path; a refusal is
\* caught by recursive_delete and read as "no items".
nlst(r, p) ==
    IF kind_at(r, p) = "dir" THEN {<<q[Len(q)]>> : q \in Children(r, p)} ELSE {}

\* The names a listing can hold: the last segment of each path.
Names(paths) == {p[Len(p)] : p \in paths}
Items(paths) == {<<name>> : name \in Names(paths)}

is_absolute(item) == Len(item) > 1 /\ item[1] = ""

\* The segments pathlib keeps of a string: empty parts and "." are dropped,
\* ".." is kept.
RECURSIVE segments(_)
segments(item) ==
    IF item = << >> THEN << >>
    ELSE IF Head(item) \in {"", "."} THEN segments(Tail(item))
    ELSE <<Head(item)>> \o segments(Tail(item))

\* The root pathlib keeps of an absolute string: "//" when the string begins
\* with exactly two slashes, "/" otherwise.
root(item) ==
    IF /\ Len(item) >= 3 /\ item[1] = "" /\ item[2] = ""
       /\ (Len(item) = 3 \/ item[3] # "")
    THEN "//" ELSE "/"

\* str(Path(remote_path).joinpath(item)): an absolute item replaces the path
\* (its first segment is then the root), any other item is joined to it.
joinpath(p, item) ==
    IF is_absolute(item)
    THEN <<root(item)>> \o segments(item)
    ELSE p \o segments(item)

\* s.rstrip('/')
RECURSIVE rstrip(_)
rstrip(item) ==
    IF Len(item) > 1 /\ item[Len(item)] = ""
    THEN rstrip(SubSeq(item, 1, Len(item) - 1))
    ELSE item

\* remote_path as the string recursive_delete holds, in the parts between its
\* slashes: "/d" is <<"", "d">>, "/" is <<"", "">>, "//d" is <<"", "", "d">>
\* and "//" is <<"", "", "">>; a relative path is its segments.
path_string(p) ==
    IF p # << >> /\ Head(p) \in {"/", "//"}
    THEN (IF Head(p) = "/" THEN <<"">> ELSE <<"", "">>)
             \o (IF Len(p) = 1 THEN <<"">> ELSE Tail(p))
    ELSE p

\* item == remote_path or item.rstrip('/') == remote_path.rstrip('/')
is_self(p, item) ==
    item = path_string(p) \/ rstrip(item) = rstrip(path_string(p))

\* ---------------------------------------------------------------- the run
NoCur == [path |-> Root, i |-> 0]
NoOps == [dirs_to_delete |-> {}, files_to_delete |-> {},
          dirs_to_create |-> {}, files_to_push |-> {}]

Idle == {"idle", "done", "failed", "connect_failed", "load_failed",
         "scan_failed", "dump_failed"}
Phases == {"del_dirs", "del_files", "mk_dirs", "uploads"}
Connected == Phases \cup {"close"}

\* The order of the four for-loops of push(), then client.close().
phase_after_creates_first(ph) ==
    CASE ph = "connect"   -> "mk_dirs"
      [] ph = "mk_dirs"   -> "uploads"
      [] ph = "uploads"   -> "del_dirs"
      [] ph = "del_dirs"  -> "del_files"
      [] ph = "del_files" -> "close"

phase_after(ph) ==
    CASE ph = "connect"   -> "del_dirs"
      [] ph = "del_dirs"  -> "del_files"
      [] ph = "del_files" -> "mk_dirs"
      [] ph = "mk_dirs"   -> "uploads"
      [] ph = "uploads"   -> "close"

PhaseTodo(ph) ==
    CASE ph = "del_dirs"  -> todo.dirs_to_delete
      [] ph = "del_files" -> todo.files_to_delete
      [] ph = "mk_dirs"   -> todo.dirs_to_create
      [] ph = "uploads"   -> todo.files_to_push

\* Where push() is next: a for-loop over an empty list takes no step.
RECURSIVE next_phase(_)
next_phase(ph) ==
    LET n == phase_after(ph)
    IN  IF n = "close" \/ PhaseTodo(n) # {} THEN n ELSE next_phase(n)

Init ==
    /\ local = EmptyTree
    /\ index = NoIndex
    /\ remote = EmptyTree
    /\ pc = "idle"
    /\ files_to_push = {}
    /\ files_to_delete = {}
    /\ dirs_to_create = {}
    /\ dirs_to_delete = {}
    /\ todo = NoOps
    /\ stack = << >>
    /\ cur = NoCur
    /\ edits = 0
    /\ index0 = NoIndex
    /\ prevOutcome = "idle"
    /\ pending = NoOps
    /\ issued = {}
    /\ remote0 = remote
    /\ attempted = << >>
    /\ lastCmd = "none"

runVars == << index, remote, files_to_push, files_to_delete, dirs_to_create,
              dirs_to_delete, todo, stack, cur, index0, prevOutcome,
              pending, issued, remote0, attempted, lastCmd >>
planVars == << files_to_push, files_to_delete, dirs_to_create, dirs_to_delete >>
histVars == << index0, prevOutcome, remote0 >>

\* ------------------------------------------------- the user edits the tree
\* Edits happen between runs: the process of the last run is gone, and with
\* it its lists and what is remembered about it.
Edited ==
    /\ edits' = edits + 1
    /\ pc' = "idle"
    /\ files_to_push' = {}
    /\ files_to_delete' = {}
    /\ dirs_to_create' = {}
    /\ dirs_to_delete' = {}
    /\ todo' = NoOps
    /\ stack' = << >>
    /\ cur' = NoCur
    /\ index0' = index
    /\ prevOutcome' = "idle"
    /\ pending' = NoOps
    /\ issued' = {}
    /\ remote0' = remote
    /\ attempted' = << >>
    /\ lastCmd' = "none"
    /\ UNCHANGED << index, remote >>

\* A file is written (created or changed), its folder made if missing.
LocalWrite(p, h) ==
    /\ pc \in Idle /\ edits < MaxEdits
    /\ local[p] \in {"absent"} \cup (Hashes \ {h})
    /\ Len(p) > 1 => local[Parent(p)] \in {"absent", "dir"}
    /\ local' = [q \in Universe |->
                    IF q = p THEN h
                    ELSE IF q = Parent(p) THEN "dir" ELSE local[q]]
    /\ Edited

\* mkdir -p
LocalMkdir(p) ==
    /\ pc \in Idle /\ edits < MaxEdits
    /\ local[p] = "absent"
    /\ Len(p) > 1 => local[Parent(p)] \in {"absent", "dir"}
    /\ local' = [q \in Universe |->
                    IF q = p \/ q = Parent(p) THEN "dir" ELSE local[q]]
    /\ Edited

\* rm -r
LocalRemove(p) ==
    /\ pc \in Idle /\ edits < MaxEdits
    /\ local[p] # "absent"
    /\ \A q \in Universe : is_relative_to(q, p) => local[q] # Unlistable
    /\ local' = [q \in Universe |->
                    IF is_relative_to(q, p) THEN "absent" ELSE local[q]]
    /\ Edited

\* chmod: a directory loses or regains the permission to be listed.
LocalChmod(p) ==
    /\ pc \in Idle /\ edits < MaxEdits
    /\ local[p] \in {"dir", Unlistable}
    /\ local' = [local EXCEPT ![p] = IF @ = "dir" THEN Unlistable ELSE "dir"]
    /\ Edited

\* Between runs index.json is damaged (truncated by a crash, edited by hand).
IndexDamaged ==
    /\ pc \in Idle /\ edits < MaxEdits
    /\ index.exists /\ index.loads
    /\ index' = DamagedIndex
    /\ edits' = edits + 1
    /\ pc' = "idle"
    /\ files_to_push' = {}
    /\ files_to_delete' = {}
    /\ dirs_to_create' = {}
    /\ dirs_to_delete' = {}
    /\ todo' = NoOps
    /\ stack' = << >>
    /\ cur' = NoCur
    /\ index0' = DamagedIndex
    /\ prevOutcome' = "idle"
    /\ pending' = NoOps
    /\ issued' = {}
    /\ remote0' = remote
    /\ attempted' = << >>
    /\ lastCmd' = "none"
    /\ UNCHANGED << local, remote >>

\* ------------------------------------------------------------------ push()
\* Lines 178-258: scan, diff against index.json, rewrite index.json, prune.
PushPlan ==
    /\ pc \in Idle
    /\ index.exists => index_loads(index)
    /\ \E ops \in {operation_lists(local, index)} :
           /\ files_to_push' = ops.files_to_push
           /\ files_to_delete' = ops.files_to_delete
           /\ dirs_to_create' = ops.dirs_to_create
           /\ dirs_to_delete' = ops.dirs_to_delete
           /\ todo' = ops
    /\ index' = index_written(local, index)
    /\ pc' = "connect"
    /\ index0' = index
    /\ prevOutcome' = IF pc = "done" /\ ~index0.exists THEN "done_first"
                      ELSE IF pc \in {"load_failed", "scan_failed", "dump_failed"}
                           THEN "idle"
                      ELSE pc
    /\ issued' = {}
    /\ remote0' = remote
    /\ attempted' = << >>
    /\ lastCmd' = "none"
    /\ stack' = << >>
    /\ cur' = NoCur
    /\ UNCHANGED << local, remote, edits, pending >>

\* generate_file_hashes: open() or read() of a file of the tree raises
\* (unreadable, removed meanwhile); nothing catches it.
ScanFails ==
    /\ pc \in Idle
    /\ \E p \in DOMAIN local : local[p] \in Hashes
    /\ pc' = "scan_failed"
    /\ files_to_push' = {}
    /\ files_to_delete' = {}
    /\ dirs_to_create' = {}
    /\ dirs_to_delete' = {}
    /\ todo' = NoOps
    /\ index0' = index
    /\ prevOutcome' = "idle"
    /\ pending' = NoOps
    /\ issued' = {}
    /\ remote0' = remote
    /\ attempted' = << >>
    /\ lastCmd' = "none"
    /\ stack' = << >>
    /\ cur' = NoCur
    /\ UNCHANGED << local, index, remote, edits >>

\* Lines 194-204: index.json is there and loading it raises (JSONDecodeError,
\* KeyError); nothing in push() catches it.
PushLoadFails ==
    /\ pc \in Idle
    /\ index.exists /\ ~index_loads(index)
    /\ pc' = "load_failed"
    /\ files_to_push' = {}
    /\ files_to_delete' = {}
    /\ dirs_to_create' = {}
    /\ dirs_to_delete' = {}
    /\ todo' = NoOps
    /\ index0' = index
    /\ prevOutcome' = "idle"
    /\ pending' = NoOps
    /\ issued' = {}
    /\ remote0' = remote
    /\ attempted' = << >>
    /\ lastCmd' = "none"
    /\ stack' = << >>
    /\ cur' = NoCur
    /\ UNCHANGED << local, index, remote, edits >>

\* Lines 228-229: open('index.json', 'w') has emptied the file and the run
\* is ended (interrupt, disk full) before json.dump has written it.
PushDumpInterrupted ==
    /\ pc \in Idle
    /\ index.exists => index_loads(index)
    /\ index' = DamagedIndex
    /\ pc' = "dump_failed"
    /\ files_to_push' = {}
    /\ files_to_delete' = {}
    /\ dirs_to_create' = {}
    /\ dirs_to_delete' = {}
    /\ todo' = NoOps
    /\ index0' = index
    /\ prevOutcome' = "idle"
    /\ pending' = NoOps
    /\ issued' = {}
    /\ remote0' = remote
    /\ attempted' = << >>
    /\ lastCmd' = "none"
    /\ stack' = << >>
    /\ cur' = NoCur
    /\ UNCHANGED << local, remote, edits >>

\* client.connect(): returns, or prints the error and exit(1).
ConnectOk ==
    /\ pc = "connect"
    /\ pc' = next_phase(pc)
    /\ prevOutcome' = "idle"
    /\ pending' = NoOps
    /\ UNCHANGED << local, edits, index, remote, planVars, todo, stack, cur,
                    index0, remote0, issued, attempted, lastCmd >>

ConnectFail ==
    /\ pc = "connect"
    /\ pc' = "connect_failed"
    /\ pending' = todo
    /\ UNCHANGED << local, edits, index, remote, planVars, todo, stack, cur,
                    histVars, issued, attempted, lastCmd >>

\* A for-loop of push() has run out of entries.
LoopExit ==
    /\ pc \in Phases
    /\ PhaseTodo(pc) = {} /\ stack = << >> /\ cur = NoCur
    /\ pc' = next_phase(pc)
    /\ UNCHANGED << local, edits, runVars >>

\* An exception nothing in push() catches (connection lost, interrupt).
Abort ==
    /\ pc \in Connected
    /\ pc' = "failed"
    /\ pending' = todo
    /\ UNCHANGED << local, edits, index, remote, planVars, todo, stack, cur,
                    histVars, issued, attempted, lastCmd >>

Without(field, p) == [todo EXCEPT ![field] = @ \ {p}]

\* recursive_delete(remote_path) just called: nothing listed yet.
Called(remote_path) == [path |-> remote_path, listed |-> FALSE, items |-> {}]

\* client.delete_dir(directory): rmd, and recursive_delete if it is refused.
DeleteDir(d) ==
    /\ pc = "del_dirs" /\ stack = << >>
    /\ d \in todo.dirs_to_delete
    /\ IF RmdOk(remote, d)
       THEN /\ remote' = [remote EXCEPT ![d] = "absent"]
            /\ todo' = Without("dirs_to_delete", d)
            /\ lastCmd' = "RMD"
            /\ issued' = issued \cup {"RMD"}
            /\ UNCHANGED stack
       ELSE /\ stack' = << Called(d) >>
            /\ lastCmd' = "RMD"
            /\ issued' = issued \cup {"RMD", RmdRefusal(remote, d),
                                      "recursive_delete"}
            /\ UNCHANGED << remote, todo >>
    /\ UNCHANGED << local, edits, pc, index, planVars, cur, histVars,
                    pending, attempted >>

\* recursive_delete, lines 49-53: the listing; a refusal gives no items.
RecursiveDeleteNlst ==
    /\ pc = "del_dirs" /\ stack # << >>
    /\ Len(stack) <= RecursionLimit
    /\ LET top == stack[Len(stack)]
           below == SubSeq(stack, 1, Len(stack) - 1)
       IN  /\ ~top.listed
           /\ stack' = Append(below, [top EXCEPT !.listed = TRUE,
                                                 !.items = nlst(remote, top.path)])
    /\ lastCmd' = "NLST"
    /\ issued' = issued \cup {"NLST"}
    /\ UNCHANGED << local, edits, pc, index, remote, planVars, todo, cur,
                    histVars, pending, attempted >>

\* recursive_delete, one item of the listing: delete it as a file, and
\* recurse into it if the delete is refused.
RecursiveDeleteItem(item) ==
    /\ pc = "del_dirs" /\ stack # << >>
    /\ LET top == stack[Len(stack)]
           target == joinpath(top.path, item)
           rest == [top EXCEPT !.items = @ \ {item}]
           below == SubSeq(stack, 1, Len(stack) - 1)
       IN  /\ top.listed
           /\ item \in top.items
           /\ IF is_self(top.path, item)
              THEN /\ stack' = Append(below, rest)
                   /\ UNCHANGED << remote, lastCmd, issued >>
              ELSE IF DeleOk(remote, target)
              THEN /\ remote' = [remote EXCEPT ![target] = "absent"]
                   /\ stack' = Append(below, rest)
                   /\ lastCmd' = "DELE"
                   /\ issued' = issued \cup {"DELE"}
              ELSE /\ stack' = Append(Append(below, rest), Called(target))
                   /\ lastCmd' = "DELE"
                   /\ issued' = issued \cup {"DELE", DeleRefusal(remote, target)}
                   /\ UNCHANGED remote
    /\ UNCHANGED << local, edits, pc, index, planVars, todo, cur,
                    histVars, pending, attempted >>

\* recursive_delete, after the loop: rmd of the directory itself.
RecursiveDeleteRmd ==
    /\ pc = "del_dirs" /\ stack # << >>
    /\ LET top == stack[Len(stack)]
           below == SubSeq(stack, 1, Len(stack) - 1)
       IN  /\ top.listed /\ top.items = {}
           /\ lastCmd' = "RMD"
           /\ IF RmdOk(remote, top.path)
              THEN /\ remote' = [remote EXCEPT ![top.path] = "absent"]
                   /\ stack' = below
                   /\ todo' = IF below = << >>
                              THEN Without("dirs_to_delete", top.path)
                              ELSE todo
                   /\ issued' = issued \cup {"RMD"}
                   /\ UNCHANGED << pc, pending >>
              ELSE /\ pc' = "failed"
                   /\ pending' = todo
                   /\ issued' = issued \cup {"RMD", RmdRefusal(remote, top.path),
                                             Raised}
                   /\ UNCHANGED << remote, stack, todo >>
    /\ UNCHANGED << local, edits, index, planVars, cur, histVars, attempted >>

\* client.delete(file)
DeleteFile(f) ==
    /\ pc = "del_files"
    /\ f \in todo.files_to_delete
    /\ lastCmd' = "DELE"
    /\ IF DeleOk(remote, f)
       THEN /\ remote' = [remote EXCEPT ![f] = "absent"]
            /\ todo' = Without("files_to_delete", f)
            /\ issued' = issued \cup {"DELE"}
            /\ UNCHANGED << pc, pending >>
       ELSE /\ pc' = "failed"
            /\ pending' = todo
            /\ issued' = issued \cup {"DELE", DeleRefusal(remote, f), Raised}
            /\ UNCHANGED << remote, todo >>
    /\ UNCHANGED << local, edits, index, planVars, stack, cur,
                    histVars, attempted >>

\* make_dir(directory) / upload(local, file): p is the entry the for-loop is
\* at, either just taken from the list or already under way.
InProgress(p) == IF cur = NoCur THEN p \in PhaseTodo(pc) ELSE p = cur.path
Position == IF cur = NoCur THEN 1 ELSE cur.i

\* path = '/'.join(dirs[:i]) of ensure_remote_dirs, for i = 1 .. len(dirs)
ensure_path_leaf_first(p, i) == SubSeq(p, 1, Len(p) - i)

ensure_path(p, i) == SubSeq(p, 1, i)

\* What `except Exception: pass` of ensure_remote_dirs swallows besides a
\* 550 reply: a 4xx reply, a connection that is lost, a reply that is not
\* understood.
Swallowed == "exception swallowed"

\* ensure_remote_dirs: mkd of the next ancestor, root first.  The directory
\* is made, or the server refuses (550), or the command fails in any other
\* way, with the directory made or not; whatever is raised is swallowed and
\* the loop goes on.
EnsureRemoteDir(p) ==
    /\ pc \in {"mk_dirs", "uploads"} /\ InProgress(p)
    /\ Position < Len(p)
    /\ LET path == ensure_path(p, Position)
           made == [remote EXCEPT ![path] = "dir"]
       IN  /\ attempted' = Append(attempted, path)
           /\ \/ /\ MkdOk(remote, path)
                 /\ remote' = made
                 /\ issued' = issued \cup {"ensure_remote_dirs", "MKD"}
              \/ /\ ~MkdOk(remote, path)
                 /\ remote' = remote
                 /\ issued' = issued \cup {"ensure_remote_dirs", "MKD",
                                           "MKD refused"}
              \/ /\ remote' \in {remote}
                                 \cup (IF MkdOk(remote, path) THEN {made} ELSE {})
                 /\ issued' = issued \cup {"ensure_remote_dirs", "MKD",
                                           Swallowed}
    /\ cur' = [path |-> p, i |-> Position + 1]
    /\ lastCmd' = "MKD"
    /\ UNCHANGED << local, edits, pc, index, planVars, todo, stack,
                    histVars, pending >>

\* make_dir: the mkd of the directory itself, refusals not caught.
MakeDir(p) ==
    /\ pc = "mk_dirs" /\ InProgress(p)
    /\ Position = Len(p)
    /\ lastCmd' = "MKD"
    /\ IF MkdOk(remote, p)
       THEN /\ remote' = [remote EXCEPT ![p] = "dir"]
            /\ todo' = Without("dirs_to_create", p)
            /\ cur' = NoCur
            /\ issued' = issued \cup {"MKD"}
            /\ attempted' = << >>
            /\ UNCHANGED << pc, pending >>
       ELSE /\ pc' = "failed"
            /\ pending' = todo
            /\ cur' = [path |-> p, i |-> Position]
            /\ issued' = issued \cup {"MKD", "MKD refused", Raised}
            /\ UNCHANGED << remote, todo, attempted >>
    /\ UNCHANGED << local, edits, index, planVars, stack, histVars >>

\* upload: open the local file and STOR it.
Upload(p) ==
    /\ pc = "uploads" /\ InProgress(p)
    /\ Position = Len(p)
    /\ lastCmd' = "STOR"
    /\ IF local[p] \in Hashes /\ StorOk(remote, p)
       THEN /\ remote' = [remote EXCEPT ![p] = local[p]]
            /\ todo' = Without("files_to_push", p)
            /\ cur' = NoCur
            /\ issued' = issued \cup {"STOR"}
            /\ attempted' = << >>
            /\ UNCHANGED << pc, pending >>
       ELSE /\ pc' = "failed"
            /\ pending' = todo
            /\ cur' = [path |-> p, i |-> Position]
            /\ issued' = issued \cup {"STOR", "STOR refused", Raised}
            /\ UNCHANGED << remote, todo, attempted >>
    /\ UNCHANGED << local, edits, index, planVars, stack, histVars >>

\* upload: open(local_filepath, 'rb') raises after ensure_remote_dirs has run.
UploadOpenFails(p) ==
    /\ pc = "uploads" /\ InProgress(p)
    /\ Position = Len(p)
    /\ pc' = "failed"
    /\ pending' = todo
    /\ cur' = [path |-> p, i |-> Position]
    /\ lastCmd' = "open"
    /\ UNCHANGED << local, edits, index, remote, planVars, todo, stack,
                    histVars, issued, attempted >>

\* The run is ended once a command has been sent and before its reply is
\* read (interrupt, connection lost): the server has carried the command out
\* or has not, and the for-loop has not completed the entry.  A STOR that is
\* cut has stored nothing, the whole file or only its first blocks.  Inside
\* ensure_remote_dirs it is an interrupt that ends the run: KeyboardInterrupt
\* is not an Exception, so line 80 does not catch it.
Effect(ok, after) == {remote} \cup (IF ok THEN {after} ELSE {})

ReplyLost(p) ==
    /\ pc \in Phases
    /\ \/ /\ pc = "del_dirs" /\ stack = << >>
          /\ p \in todo.dirs_to_delete
          /\ remote' \in Effect(RmdOk(remote, p),
                                [remote EXCEPT ![p] = "absent"])
          /\ lastCmd' = "RMD"
          /\ UNCHANGED << cur, attempted >>
       \/ /\ pc = "del_dirs" /\ stack # << >>
          /\ p = stack[Len(stack)].path
          /\ ~stack[Len(stack)].listed
          /\ lastCmd' = "NLST"
          /\ UNCHANGED << remote, cur, attempted >>
       \/ /\ pc = "del_dirs" /\ stack # << >>
          /\ stack[Len(stack)].listed
          /\ \E item \in stack[Len(stack)].items :
                 /\ ~is_self(stack[Len(stack)].path, item)
                 /\ p = joinpath(stack[Len(stack)].path, item)
          /\ remote' \in Effect(DeleOk(remote, p),
                                [remote EXCEPT ![p] = "absent"])
          /\ lastCmd' = "DELE"
          /\ UNCHANGED << cur, attempted >>
       \/ /\ pc = "del_dirs" /\ stack # << >>
          /\ stack[Len(stack)].listed /\ stack[Len(stack)].items = {}
          /\ p = stack[Len(stack)].path
          /\ remote' \in Effect(RmdOk(remote, p),
                                [remote EXCEPT ![p] = "absent"])
          /\ lastCmd' = "RMD"
          /\ UNCHANGED << cur, attempted >>
       \/ /\ pc = "del_files"
          /\ p \in todo.files_to_delete
          /\ remote' \in Effect(DeleOk(remote, p),
                                [remote EXCEPT ![p] = "absent"])
          /\ lastCmd' = "DELE"
          /\ UNCHANGED << cur, attempted >>
       \/ /\ pc \in {"mk_dirs", "uploads"} /\ InProgress(p)
          /\ Position < Len(p)
          /\ LET path == ensure_path(p, Position)
             IN  /\ remote' \in Effect(MkdOk(remote, path),
                                       [remote EXCEPT ![path] = "dir"])
                 /\ attempted' = Append(attempted, path)
          /\ cur' = [path |-> p, i |-> Position]
          /\ lastCmd' = "MKD"
       \/ /\ pc = "mk_dirs" /\ InProgress(p)
          /\ Position = Len(p)
          /\ remote' \in Effect(MkdOk(remote, p),
                                [remote EXCEPT ![p] = "dir"])
          /\ cur' = [path |-> p, i |-> Position]
          /\ lastCmd' = "MKD"
          /\ UNCHANGED attempted
       \/ /\ pc = "uploads" /\ InProgress(p)
          /\ Position = Len(p)
          /\ local[p] \in Hashes
          /\ remote' \in Effect(StorOk(remote, p),
                                [remote EXCEPT ![p] = local[p]])
                         \cup Effect(StorOk(remote, p),
                                     [remote EXCEPT ![p] = Partial])
          /\ cur' = [path |-> p, i |-> Position]
          /\ lastCmd' = "STOR"
          /\ UNCHANGED attempted
    /\ issued' = issued \cup {lastCmd'}
                      \cup (IF Len(attempted') > Len(attempted)
                            THEN {"ensure_remote_dirs"} ELSE {})
    /\ pc' = "failed"
    /\ pending' = todo
    /\ UNCHANGED << local, edits, index, planVars, todo, stack, histVars >>

\* client.close(), and push() returns.
Close ==
    /\ pc = "close"
    /\ pc' = "done"
    /\ pending' = NoOps
    /\ UNCHANGED << local, edits, index, remote, planVars, todo, stack, cur,
                    histVars, issued, attempted, lastCmd >>

Next ==
    \/ \E p \in Universe, h \in Hashes : LocalWrite(p, h)
    \/ \E p \in Universe : LocalMkdir(p)
    \/ \E p \in Universe : LocalRemove(p)
    \/ IndexDamaged
    \/ PushPlan
    \/ PushLoadFails
    \/ ConnectOk
    \/ ConnectFail
    \/ LoopExit
    \/ Abort
    \/ PushDumpInterrupted
    \/ \E p \in Universe : ReplyLost(p)
    \/ \E d \in Universe : DeleteDir(d)
    \/ RecursiveDeleteNlst
    \/ \E item \in Items(Universe) : RecursiveDeleteItem(item)
    \/ RecursiveDeleteRmd
    \/ \E f \in Universe : DeleteFile(f)
    \/ \E p \in Universe : EnsureRemoteDir(p)
    \/ \E p \in Universe : MakeDir(p)
    \/ \E p \in Universe : Upload(p)
    \/ Close

Spec == Init /\ [][Next]_vars

\* ------------------------------------ the same, with local I/O errors
NextIO ==
    \/ Next
    \/ \E p \in Universe : LocalChmod(p)
    \/ ScanFails
    \/ \E p \in Universe : UploadOpenFails(p)

SpecIO == Init /\ [][NextIO]_vars

\* ------------------------------------------- the diff on every pair of trees
\* A run that starts from any snapshot the program can have written (or from
\* none) and any local tree, the remote in step with the snapshot.
ValidTrees == {t \in [Universe -> Kinds] : ValidTree(t)}

\* The trees a snapshot can record.  The diff compares hashes path by path,
\* so one hash on this side and two on the local side give every case.
PreviousTrees == {t \in [Universe -> {"absent", "dir", "H1"}] : ValidTree(t)}

\* The local trees: as ValidTrees, and a directory that has room for entries
\* may be unlistable.
LocalTrees ==
    {t \in [Universe -> Kinds \cup {Unlistable}] :
        /\ ValidTree(t)
        /\ \A p \in Universe :
               t[p] = Unlistable => \E q \in Universe : Parent(q) = p}

InitDiff ==
    /\ local \in LocalTrees
    /\ \E t0 \in PreviousTrees, first \in BOOLEAN :
           /\ first => t0 = EmptyTree
           /\ index = IF first THEN NoIndex ELSE index_written(t0, NoIndex)
           /\ remote = t0
    /\ pc = "idle"
    /\ files_to_push = {}
    /\ files_to_delete = {}
    /\ dirs_to_create = {}
    /\ dirs_to_delete = {}
    /\ todo = NoOps
    /\ stack = << >>
    /\ cur = NoCur
    /\ edits = 0
    /\ index0 = index
    /\ prevOutcome = "idle"
    /\ pending = NoOps
    /\ issued = {}
    /\ remote0 = remote
    /\ attempted = << >>
    /\ lastCmd = "none"

NextDiff == pc = "idle" /\ PushPlan

SpecDiff == InitDiff /\ [][NextDiff]_vars

\* ------------------------------ a whole run on every pair, remote in step
\* A run from any previous tree (or from no snapshot) to any local tree, the
\* remote holding what the snapshot records, with a server that refuses only
\* what its tree makes it refuse; the failures ensure_remote_dirs swallows
\* are the only ones.
SnapshotTree(idx) ==
    [p \in Universe |->
        IF p \in idx.dirs THEN "dir"
        ELSE IF p \in DOMAIN idx.files THEN idx.files[p] ELSE "absent"]

InitSync ==
    /\ local \in ValidTrees
    /\ \E t0 \in PreviousTrees, first \in BOOLEAN :
           /\ first => t0 = EmptyTree
           /\ index = IF first THEN NoIndex ELSE index_written(t0, NoIndex)
           /\ remote = t0
    /\ pc = "idle"
    /\ files_to_push = {}
    /\ files_to_delete = {}
    /\ dirs_to_create = {}
    /\ dirs_to_delete = {}
    /\ todo = NoOps
    /\ stack = << >>
    /\ cur = NoCur
    /\ edits = 0
    /\ index0 = index
    /\ prevOutcome = "idle"
    /\ pending = NoOps
    /\ issued = {}
    /\ remote0 = remote
    /\ attempted = << >>
    /\ lastCmd = "none"

NextSync ==
    \/ pc = "idle" /\ PushPlan
    \/ ConnectOk
    \/ LoopExit
    \/ \E d \in Universe : DeleteDir(d)
    \/ RecursiveDeleteNlst
    \/ \E item \in Items(Universe) : RecursiveDeleteItem(item)
    \/ RecursiveDeleteRmd
    \/ \E f \in Universe : DeleteFile(f)
    \/ \E p \in Universe : EnsureRemoteDir(p)
    \/ \E p \in Universe : MakeDir(p)
    \/ \E p \in Universe : Upload(p)
    \/ Close

SpecSync == InitSync /\ [][NextSync]_vars

\* ------------------------------- one FTPClient call on every remote tree
\* delete_dir, make_dir or upload of one path, called by the for-loops of
\* push() on a remote that holds anything at all (the remote is shared, and
\* a run that failed leaves it behind index.json).  The paths reach three
\* levels deep and include a directory with an entry of its own name.
AllPaths ==
    Universe \cup { <<"d", "d">>, <<"d", "sub">>, <<"d", "sub", "g.txt">> }

ExecTrees == {t \in [AllPaths -> {"absent", "dir", "H1"}] : ValidTree(t)}

Ancestors(p) == {SubSeq(p, 1, i) : i \in 1 .. Len(p) - 1}

\* The local tree that holds p as `kind`, its folders, and nothing else.
TreeWith(p, kind) ==
    [q \in AllPaths |->
        IF q \in Ancestors(p) THEN "dir" ELSE IF q = p THEN kind ELSE "absent"]

Calls == {"delete_dir", "make_dir", "upload"}

InitExec ==
    /\ \E call \in Calls, p \in AllPaths :
           LET before == TreeWith(p, IF call = "delete_dir" THEN "dir" ELSE "absent")
               after == TreeWith(p, CASE call = "delete_dir" -> "absent"
                                      [] call = "make_dir" -> "dir"
                                      [] call = "upload" -> "H1")
               snapshot == index_written(before, NoIndex)
               ops == operation_lists(after, snapshot)
           IN  /\ local = after
               /\ index0 = snapshot
               /\ index = index_written(after, snapshot)
               /\ files_to_push = ops.files_to_push
               /\ files_to_delete = ops.files_to_delete
               /\ dirs_to_create = ops.dirs_to_create
               /\ dirs_to_delete = ops.dirs_to_delete
               /\ todo = ops
               /\ pc = CASE call = "delete_dir" -> "del_dirs"
                          [] call = "make_dir" -> "mk_dirs"
                          [] call = "upload" -> "uploads"
    /\ remote \in ExecTrees
    /\ stack = << >>
    /\ cur = NoCur
    /\ edits = 0
    /\ prevOutcome = "idle"
    /\ pending = NoOps
    /\ issued = {}
    /\ remote0 = remote
    /\ attempted = << >>
    /\ lastCmd = "none"

NextExec ==
    \/ \E d \in AllPaths : DeleteDir(d)
    \/ RecursiveDeleteNlst
    \/ \E item \in Items(AllPaths) : RecursiveDeleteItem(item)
    \/ RecursiveDeleteRmd
    \/ \E p \in AllPaths : EnsureRemoteDir(p)
    \/ \E p \in AllPaths : MakeDir(p)
    \/ \E p \in AllPaths : Upload(p)

SpecExec == InitExec /\ [][NextExec]_vars

\* ------------------- delete_dir on every remote tree, any command refused
\* The server may refuse any RMD, DELE or NLST whatever its tree holds
\* (permissions, locks).  What NLST sends is the server's choice: the names
\* of the entries, and with them "." or the directory itself; for a file,
\* the file's name or its path.
Permission == "refused: permission"
RecursionError == "RecursionError raised"

\* What ftps.nlst(p) can give recursive_delete besides nlst(r, p).
Listings(r, p) ==
    {{}}
        \cup (IF kind_at(r, p) \in RemoteFiles
              THEN {{<<p[Len(p)]>>}, {p}} ELSE {})
        \cup (IF kind_at(r, p) = "dir"
              THEN {nlst(r, p) \cup {<<".">>}, nlst(r, p) \cup {p \o <<"">>}}
              ELSE {})

\* delete_dir: rmd refused although the directory is there and empty.
DeleteDirRefused(d) ==
    /\ pc = "del_dirs" /\ stack = << >>
    /\ d \in todo.dirs_to_delete
    /\ stack' = << Called(d) >>
    /\ lastCmd' = "RMD"
    /\ issued' = issued \cup {"RMD", Permission, "recursive_delete"}
    /\ UNCHANGED << local, edits, pc, index, remote, planVars, todo, cur,
                    histVars, pending, attempted >>

\* recursive_delete, lines 49-53: a listing that is refused, or one that
\* holds more than the names of the entries.
RecursiveDeleteListing ==
    /\ pc = "del_dirs" /\ stack # << >>
    /\ Len(stack) <= RecursionLimit
    /\ LET top == stack[Len(stack)]
           below == SubSeq(stack, 1, Len(stack) - 1)
       IN  /\ ~top.listed
           /\ \E items \in Listings(remote, top.path) :
                  stack' = Append(below, [top EXCEPT !.listed = TRUE,
                                                        !.items = items])
    /\ lastCmd' = "NLST"
    /\ issued' = issued \cup {"NLST"}
    /\ UNCHANGED << local, edits, pc, index, remote, planVars, todo, cur,
                    histVars, pending, attempted >>

\* The call of recursive_delete goes past the interpreter's recursion limit.
RecursionErrorRaised ==
    /\ pc = "del_dirs" /\ stack # << >>
    /\ Len(stack) > RecursionLimit
    /\ ~stack[Len(stack)].listed
    /\ pc' = "failed"
    /\ pending' = todo
    /\ issued' = issued \cup {RecursionError}
    /\ UNCHANGED << local, edits, index, remote, planVars, todo, stack, cur,
                    histVars, attempted, lastCmd >>

\* recursive_delete, one item: delete refused whatever the item is.
RecursiveDeleteItemRefused(item) ==
    /\ pc = "del_dirs" /\ stack # << >>
    /\ LET top == stack[Len(stack)]
           target == joinpath(top.path, item)
           rest == [top EXCEPT !.items = @ \ {item}]
           below == SubSeq(stack, 1, Len(stack) - 1)
       IN  /\ top.listed
           /\ item \in top.items
           /\ ~is_self(top.path, item)
           /\ stack' = Append(Append(below, rest), Called(target))
    /\ lastCmd' = "DELE"
    /\ issued' = issued \cup {"DELE", Permission}
    /\ UNCHANGED << local, edits, pc, index, remote, planVars, todo, cur,
                    histVars, pending, attempted >>

\* recursive_delete, after the loop: rmd refused whatever the directory holds.
RecursiveDeleteRmdRefused ==
    /\ pc = "del_dirs" /\ stack # << >>
    /\ stack[Len(stack)].listed
    /\ stack[Len(stack)].items = {}
    /\ pc' = "failed"
    /\ pending' = todo
    /\ lastCmd' = "RMD"
    /\ issued' = issued \cup {"RMD", Permission, Raised}
    /\ UNCHANGED << local, edits, index, remote, planVars, todo, stack, cur,
                    histVars, attempted >>

\* delete_dir on any path, the remote holding up to MaxEntries entries.
InitFaulty ==
    /\ InitExec /\ pc = "del_dirs"
    /\ Cardinality({q \in AllPaths : remote[q] # "absent"}) <= MaxEntries

\* Every string a listing of the model can hold.
FaultyItems ==
    Items(AllPaths) \cup AllPaths \cup {p \o <<"">> : p \in AllPaths}
        \cup {<<".">>}

NextFaulty ==
    \/ \E d \in AllPaths : DeleteDir(d)
    \/ \E d \in AllPaths : DeleteDirRefused(d)
    \/ RecursiveDeleteNlst
    \/ RecursiveDeleteListing
    \/ RecursionErrorRaised
    \/ \E item \in FaultyItems : RecursiveDeleteItem(item)
    \/ \E item \in FaultyItems : RecursiveDeleteItemRefused(item)
    \/ RecursiveDeleteRmd
    \/ RecursiveDeleteRmdRefused

SpecFaulty == InitFaulty /\ [][NextFaulty]_vars

\* ------------------------------------------------------------------ claims
Planned == pc = "connect"
Removals == {"RMD", "DELE"}
Creations == {"MKD", "STOR"}

\* C1: the stored snapshot is replaced only after every scheduled remote
\* operation has completed; while operations are still outstanding, and after
\* a run that failed with operations outstanding, index.json is still the
\* snapshot the run loaded.
C1_SnapshotReplacedOnlyAfterOperations ==
    (pc \in Phases \cup {"failed"} /\ todo # NoOps) => index = index0

\* C2: when the connection cannot be established the run ends with the
\* snapshot it found, and no remote command has been issued.
C2_ConnectFailureKeepsSnapshot ==
    pc = "connect_failed" => (index = index0 /\ lastCmd = "none" /\ issued = {})

\* C3: a run that follows an aborted run, with no local change in between,
\* plans every operation the aborted run left undone.
C3_RerunPlansPendingOperations ==
    (Planned /\ prevOutcome = "failed") =>
        /\ pending.dirs_to_delete \subseteq dirs_to_delete
        /\ pending.files_to_delete \subseteq files_to_delete
        /\ pending.dirs_to_create \subseteq dirs_to_create
        /\ pending.files_to_push \subseteq files_to_push

\* C4: the lists run in the order dirs_to_delete, files_to_delete,
\* dirs_to_create, files_to_push: a loop starts only when the loops before it
\* have finished, and no removal (RMD or DELE, those of recursive_delete
\* included) is issued once a creation (MKD or STOR, the MKDs of
\* ensure_remote_dirs included) has been issued.
C4_RemovalsBeforeCreations ==
    /\ lastCmd \in Removals => issued \cap Creations = {}
    /\ issued \cap Creations # {} =>
           (todo.dirs_to_delete = {} /\ todo.files_to_delete = {} /\ stack = << >>)
    /\ pc = "del_files" => todo.dirs_to_delete = {}
    /\ pc = "uploads" => todo.dirs_to_create = {}
    /\ pc \in {"del_dirs", "del_files"} => todo.files_to_push = files_to_push

C4_Witness ==
    /\ lastCmd = "STOR"
    /\ {"recursive_delete", "RMD", "DELE", "ensure_remote_dirs"} \subseteq issued

\* C5: a run that follows a successful run (the first one included) with the
\* tree unchanged computes four empty lists.
C5_SecondPushIsEmpty ==
    (Planned /\ prevOutcome \in {"done", "done_first"}) =>
        /\ dirs_to_create = {} /\ dirs_to_delete = {}
        /\ files_to_push = {} /\ files_to_delete = {}

C5_Witness ==
    /\ Planned /\ prevOutcome = "done_first"
    /\ \E d \in Universe, f \in Universe :
           local[d] = "dir" /\ local[f] \in Hashes /\ is_relative_to(f, d)

\* C6: after pruning, dirs_to_create holds no proper ancestor of another of
\* its entries and dirs_to_delete holds no proper descendant of another of
\* its entries.
C6_Minimality ==
    Planned =>
        /\ \A x \in dirs_to_create, y \in dirs_to_create :
               x # y => ~ is_relative_to(y, x)
        /\ \A x \in dirs_to_delete, y \in dirs_to_delete :
               x # y => ~ is_relative_to(x, y)

\* a new directory with a new directory in it, and a removed directory with
\* a removed directory in it
C6_Witness ==
    /\ Planned
    /\ \E x \in Universe, y \in Universe :
           /\ Parent(y) = x
           /\ local[x] = "dir" /\ local[y] = "dir"
           /\ x \notin index0.dirs /\ y \notin index0.dirs
           /\ y \in dirs_to_create
    /\ \E x \in Universe, y \in Universe :
           /\ Parent(y) = x
           /\ x \in index0.dirs /\ y \in index0.dirs
           /\ local[x] = "absent"
           /\ x \in dirs_to_delete

\* Scenario C: the snapshot holds d, d/e.txt and d/f.txt, and d is gone.
ScenarioC ==
    /\ index0.exists
    /\ index0.dirs = { <<"d">> }
    /\ DOMAIN index0.files = { <<"d", "e.txt">>, <<"d", "f.txt">> }
    /\ local[<<"d">>] = "absent"

\* C7: after pruning no file of files_to_delete lies under (or is) a
\* directory of dirs_to_delete; when directory d with d/e.txt and d/f.txt
\* disappears, the plan is dirs_to_delete = {d} and files_to_delete = {}.
C7_NoRedundantFileDeletion ==
    Planned =>
        /\ \A f \in files_to_delete, d \in dirs_to_delete : ~ is_relative_to(f, d)
        /\ ScenarioC => (dirs_to_delete = { <<"d">> } /\ files_to_delete = {})

C7_Witness == Planned /\ ScenarioC

\* Scenario A: no snapshot, and the tree is a.txt, b and b/c.txt.
ScenarioA ==
    /\ ~index0.exists
    /\ local = [p \in Universe |->
                   CASE p = <<"a.txt">> -> "H1"
                     [] p = <<"b">> -> "dir"
                     [] p = <<"b", "c.txt">> -> "H2"
                     [] OTHER -> "absent"]

\* C8 as stated: no snapshot, local tree a.txt and b/c.txt: dirs_to_create is
\* {b}, files_to_push is {a.txt, b/c.txt}, nothing is deleted.
C8_ScenarioA_AsStated ==
    (Planned /\ ScenarioA) =>
        /\ dirs_to_create = { <<"b">> }
        /\ files_to_push = { <<"a.txt">>, <<"b", "c.txt">> }
        /\ dirs_to_delete = {} /\ files_to_delete = {}

\* C8 amended: in that scenario b is dropped from dirs_to_create because the
\* upload of b/c.txt lies in it: dirs_to_create is empty, files_to_push is
\* {a.txt, b/c.txt}, nothing is deleted.
C8_ScenarioA_Amended ==
    (Planned /\ ScenarioA) =>
        /\ dirs_to_create = {}
        /\ files_to_push = { <<"a.txt">>, <<"b", "c.txt">> }
        /\ dirs_to_delete = {} /\ files_to_delete = {}

C8_Witness == Planned /\ ScenarioA

\* The scan reaches p: every directory above it can be listed.
Scanned(p) ==
    \A i \in 1 .. Len(p) - 1 : local[SubSeq(p, 1, i)] = "dir"

\* C9: after a successful run index.json holds exactly the files the scan
\* of the tree reaches, with their hashes, and exactly the directories it
\* reaches, the ones pruned from dirs_to_create included.
C9_SnapshotReflectsTree ==
    pc = "done" =>
        /\ index.exists
        /\ DOMAIN index.files =
               {p \in Universe : local[p] \in Hashes /\ Scanned(p)}
        /\ \A p \in DOMAIN index.files : index.files[p] = local[p]
        /\ index.dirs = {p \in Universe : local[p] = "dir" /\ Scanned(p)}

\* a first run, successful, with a directory in a directory that holds a file
C9_Witness ==
    /\ pc = "done" /\ ~index0.exists
    /\ \E x \in Universe, y \in Universe, f \in Universe :
           /\ local[x] = "dir" /\ local[y] = "dir" /\ local[f] \in Hashes
           /\ Parent(y) = x /\ Parent(f) = x
           /\ x \notin dirs_to_create

\* C10 as stated: no path is in two of the four lists.
C10_PairwiseDisjoint_AsStated ==
    Planned =>
        /\ dirs_to_create \cap dirs_to_delete = {}
        /\ dirs_to_create \cap files_to_push = {}
        /\ dirs_to_create \cap files_to_delete = {}
        /\ dirs_to_delete \cap files_to_push = {}
        /\ dirs_to_delete \cap files_to_delete = {}
        /\ files_to_push \cap files_to_delete = {}

\* C10 amended: the lists are pairwise disjoint except that a path that was a
\* file and is now a directory can be in files_to_delete and dirs_to_create,
\* and a path that was a directory and is now a file can be in dirs_to_delete
\* and files_to_push; nothing else is in two lists.
C10_DisjointButForTypeChanges ==
    Planned =>
        /\ dirs_to_create \cap dirs_to_delete = {}
        /\ dirs_to_create \cap files_to_push = {}
        /\ dirs_to_delete \cap files_to_delete = {}
        /\ files_to_push \cap files_to_delete = {}
        /\ \A p \in dirs_to_create \cap files_to_delete :
               p \in DOMAIN index0.files /\ local[p] = "dir"
        /\ \A p \in dirs_to_delete \cap files_to_push :
               p \in index0.dirs /\ local[p] \in Hashes

C10_Witness ==
    /\ Planned
    /\ dirs_to_create \cap files_to_delete # {}
    /\ dirs_to_delete \cap files_to_push # {}

\* The refusals that are not "this directory still has entries in it": a
\* directory delete of something that is not there or is not a directory, a
\* file delete of something that is not there.
OtherRefusals ==
    {"RMD refused: not found", "RMD refused: not a directory",
     "DELE refused: not found"}

\* C11: recursive_delete is entered only after a directory delete was refused
\* because the directory is not empty; a directory delete refused for any
\* other reason (not found, not a directory, permission) ends the run at that
\* command, so no recursive_delete call is ever under way in a run that has
\* met such a refusal.
C11_FallbackOnlyOnNotEmpty ==
    stack # << >> => issued \cap OtherRefusals = {}

\* delete_dir(d) has returned, or has raised.
DeleteDirEnded(d) ==
    \/ "RMD" \in issued /\ d \notin todo.dirs_to_delete /\ stack = << >>
    \/ pc = "failed"

\* C12: delete_dir applied to a non-empty remote directory d, with no remote
\* call refused for a reason other than not-empty (a file delete refused on a
\* sub-directory is what makes it recurse), returns with d and everything
\* under d absent from the remote and nothing outside d changed.
C12_DeleteDirRemovesSubtree ==
    \A d \in dirs_to_delete :
        ( /\ remote0[d] = "dir" /\ Children(remote0, d) # {}
          /\ issued \cap OtherRefusals = {}
          /\ DeleteDirEnded(d) )
        => /\ pc # "failed"
           /\ \A q \in DOMAIN remote :
                  remote[q] = IF is_relative_to(q, d) THEN "absent" ELSE remote0[q]

\* The step is upload(f) sending STOR for f.
UploadStep(f) ==
    /\ pc = "uploads" /\ InProgress(f) /\ Position = Len(f)
    /\ lastCmd' = "STOR"
    /\ \/ f \in todo.files_to_push /\ f \notin todo'.files_to_push
       \/ Raised \in issued' /\ cur'.path = f

\* The step is ensure_remote_dirs sending one MKD.
EnsureStep == Len(attempted') = Len(attempted) + 1

\* C13: when STOR is sent for a file, MKD has been sent for each proper
\* ancestor of its path, once each and root first, and for nothing else (so
\* for nothing when the file sits in the root); an MKD sent on the way never
\* ends the run, whatever the server answers or however the command fails
\* (line 80 swallows it), and when the ancestors are all
\* there the file is stored.
C13_AncestorsBeforeUpload ==
    [][ /\ EnsureStep => pc' = pc
        /\ \A f \in DOMAIN remote :
               UploadStep(f) =>
                   /\ attempted = [i \in 1 .. Len(f) - 1 |-> SubSeq(f, 1, i)]
                   /\ ( /\ \A a \in Ancestors(f) : remote[a] = "dir"
                        /\ remote[f] # "dir" )
                      => pc' = pc /\ remote'[f] = local[f]
      ]_vars

\* d/sub/g.txt stored on a remote that had d but not d/sub: the MKD for d was
\* refused and swallowed, the MKD for d/sub made the folder.
C13_Witness ==
    /\ pc = "uploads" /\ lastCmd = "STOR"
    /\ files_to_push = { <<"d", "sub", "g.txt">> } /\ todo.files_to_push = {}
    /\ remote0[<<"d">>] = "dir" /\ remote0[<<"d", "sub">>] = "absent"
    /\ "MKD refused" \in issued
    /\ remote[<<"d", "sub">>] = "dir"
    /\ remote[<<"d", "sub", "g.txt">>] = local[<<"d", "sub", "g.txt">>]

\* C14: a run that finds index.json there but unloadable ends at the load (if
\* the scan before it has not already ended it): it
\* plans nothing (the snapshot is not read as empty, so no upload of the whole
\* tree), leaves index.json as it found it, and sends nothing to the remote.
C14_DamagedSnapshotAborts ==
    (index0.exists /\ ~index0.loads /\ pc # "idle") =>
        /\ pc \in {"load_failed", "scan_failed"}
        /\ index = index0
        /\ files_to_push = {} /\ files_to_delete = {}
        /\ dirs_to_create = {} /\ dirs_to_delete = {}
        /\ todo = NoOps
        /\ issued = {} /\ lastCmd = "none"
        /\ remote = remote0

\* The run has ended at the load, with local files the remote does not hold.
C14_Witness ==
    /\ pc = "load_failed"
    /\ index = DamagedIndex
    /\ \E p \in DOMAIN local : local[p] \in Hashes /\ remote[p] = "absent"

\* The scan of the run came upon a directory it could not list.
UnlistableMet ==
    /\ pc # "idle"
    /\ \E d \in Universe :
           local[d] = Unlistable /\ Parent(d) \in walk(local, Root)

\* C15: a run that meets a local I/O error (a file that cannot be read while
\* the tree is hashed, a directory that cannot be listed, a file that cannot
\* be opened when its upload starts) is ended by it and leaves index.json
\* exactly as the run found it.
C15_LocalErrorKeepsSnapshot ==
    /\ (pc = "scan_failed" \/ (pc = "failed" /\ lastCmd = "open"))
           => index = index0
    /\ UnlistableMet => (pc = "scan_failed" /\ index = index0)

\* The previous mapping P is index0.files, the current mapping C is the files
\* of the local tree that the scan reaches; the directories likewise.
InC(p) == local[p] \in Hashes /\ Scanned(p)
InP(p) == p \in DOMAIN index0.files
InCDirs(d) == local[d] = "dir" /\ Scanned(d)
NewDirs == {d \in Universe : InCDirs(d) /\ d \notin index0.dirs}
GoneDirs == {d \in index0.dirs : ~InCDirs(d)}
GoneFiles == {f \in DOMAIN index0.files : ~InC(f)}
Under(p, d) == p # d /\ is_relative_to(p, d)

\* C16: files_to_push is exactly the paths of C that are not in P or have a
\* different hash there; the files to delete, before pruning, are exactly the
\* paths of P that are not in C (and pruning only takes away from them); with
\* no previous snapshot every path of C is pushed and nothing is deleted.
C16_ExactFileDiff ==
    Planned =>
        /\ files_to_push =
               {p \in Universe : InC(p) /\ (~InP(p) \/ index0.files[p] # local[p])}
        /\ raw_files_to_delete(generate_file_hashes(local), index0) = GoneFiles
        /\ files_to_delete \subseteq GoneFiles
        /\ ~index0.exists =>
               /\ files_to_push = {p \in Universe : InC(p)}
               /\ GoneFiles = {} /\ files_to_delete = {}

\* one file changed, one new, one gone and one the same, in one diff
C16_Witness ==
    /\ Planned /\ index0.exists
    /\ \E p \in Universe : InC(p) /\ InP(p) /\ index0.files[p] # local[p]
                           /\ p \in files_to_push
    /\ \E p \in Universe : InC(p) /\ ~InP(p) /\ p \in files_to_push
    /\ \E p \in Universe : InC(p) /\ InP(p) /\ index0.files[p] = local[p]
                           /\ p \notin files_to_push
    /\ \E p \in Universe : ~InC(p) /\ InP(p) /\ p \in files_to_delete

\* C17: after pruning, dirs_to_create is exactly the new directories that
\* hold no file of files_to_push and have no other new directory under them.
C17_ExactPrunedCreates ==
    Planned =>
        dirs_to_create =
            {d \in NewDirs :
                /\ ~ \E f \in files_to_push : Under(f, d)
                /\ ~ \E other \in NewDirs : Under(other, d)}

\* three new directories: a.txt is empty and kept, b holds the upload
\* b/c.txt, d holds the new directory d/e.txt
C17_Witness ==
    /\ Planned /\ index0.exists
    /\ NewDirs = { <<"a.txt">>, <<"b">>, <<"d">>, <<"d", "e.txt">> }
    /\ <<"b", "c.txt">> \in files_to_push
    /\ dirs_to_create = { <<"a.txt">>, <<"d", "e.txt">> }

\* C18: pruning loses no work.  Every new directory is in dirs_to_create or
\* is a proper ancestor of an entry of dirs_to_create or of files_to_push;
\* every removed directory is in dirs_to_delete or lies under an entry of it;
\* every removed file is in files_to_delete or lies under an entry of
\* dirs_to_delete.
C18_PruningLosesNoWork ==
    Planned =>
        /\ \A d \in NewDirs :
               \/ d \in dirs_to_create
               \/ \E x \in dirs_to_create \cup files_to_push : Under(x, d)
        /\ \A d \in GoneDirs :
               \/ d \in dirs_to_delete
               \/ \E x \in dirs_to_delete : Under(d, x)
        /\ \A f \in GoneFiles :
               \/ f \in files_to_delete
               \/ \E x \in dirs_to_delete : Under(f, x)

\* each of the three prunings has dropped something
C18_Witness ==
    /\ Planned
    /\ NewDirs \ dirs_to_create # {}
    /\ GoneDirs \ dirs_to_delete # {}
    /\ GoneFiles \ files_to_delete # {}

\* The run found the remote holding exactly what the snapshot it loaded
\* records (nothing, when there was no snapshot).
InSyncAtStart == index0.loads /\ remote0 = SnapshotTree(index0)

\* C19: a run that found the remote in step with the previous snapshot, and
\* has completed, leaves the remote holding exactly the local tree: the same
\* files with their current content and the same directories, empty ones
\* and paths that changed between file and directory included.
C19_RemoteEqualsLocal ==
    (pc = "done" /\ InSyncAtStart) => remote = local

RECURSIVE Cost(_, _), SumCost(_, _)
Cost(r, t) ==
    4 + (IF kind_at(r, t) = "dir" THEN SumCost(r, Children(r, t))
         ELSE IF kind_at(r, t) \in RemoteFiles THEN 4
         ELSE 0)
SumCost(r, S) ==
    IF S = {} THEN 0
    ELSE LET t == CHOOSE x \in S : TRUE
         IN  Cost(r, t) + SumCost(r, S \ {t})

\* One frame of recursive_delete: its final rmd and the items still to
\* visit, one step for an item that is skipped, and before those its listing.
FrameRank(r, frame) ==
    IF frame.listed
    THEN LET skipped == {item \in frame.items : is_self(frame.path, item)}
         IN  1 + Cardinality(skipped)
               + SumCost(r, {joinpath(frame.path, item) :
                                item \in frame.items \ skipped})
    ELSE Cost(r, frame.path) - 1

RECURSIVE StackRank(_, _)
StackRank(r, frames) ==
    IF frames = << >> THEN 0
    ELSE FrameRank(r, frames[1]) + StackRank(r, Tail(frames))

\* delete_dir has returned or raised.
DeleteDirOver == pc = "failed" \/ (stack = << >> /\ todo.dirs_to_delete = {})

\* Remote calls delete_dir can still make.
Rank ==
    IF pc = "failed" THEN 0
    ELSE IF stack = << >> THEN SumCost(remote, todo.dirs_to_delete)
    ELSE StackRank(remote, stack)

\* Entries of the tree the call started on, at or below the directory.
SubtreeSize ==
    Cardinality({q \in DOMAIN remote0 :
                    /\ remote0[q] # "absent"
                    /\ \E d \in dirs_to_delete : is_relative_to(q, d)})

\* C21: on every finite remote tree and whatever the server refuses or
\* lists, delete_dir terminates after a number of remote calls bounded by the
\* size of the subtree: the number of calls it can still make is never more
\* than 4 + 8 * (entries of the subtree) and is 0 only when delete_dir has
\* returned or raised, each recursion goes to a path one segment longer than
\* its caller's (so no entry, even one whose listing names the entry itself,
\* is entered twice), and until delete_dir is over a next step exists.
C21_DeleteDirTerminates ==
    /\ Rank <= 4 + 8 * SubtreeSize
    /\ Rank = 0 <=> DeleteDirOver
    /\ \A i \in 1 .. Len(stack) - 1 :
           Len(stack[i + 1].path) = Len(stack[i].path) + 1
    /\ ~DeleteDirOver => ENABLED <<NextFaulty>>_vars
====
